---- MODULE Spec2Model ----
(***************************************************************************)
(* A model of the read-generation engine of sim3C's Art.py: the empirical  *)
(* quality profile (EmpDist), the per-read indel model (SeqRead) and the   *)
(* read synthesizer (Art).  Sequences are TLA+ sequences of one-letter     *)
(* strings; Python's 0-based indices are kept and shifted by one only      *)
(* where a TLA+ sequence is indexed.                                       *)
(***************************************************************************)
EXTENDS Integers, Sequences, FiniteSets, TLC

\* ------------------------------------------------------------------ bounds
\* Largest configured read length (read_len given to Art).
MaxReadLen == 3
\* Largest max_num given to Art.
MaxNum == 2
\* Largest number of lines of a profile file.
MaxFileLines == 4
\* Largest length of a sequence given to revcomp.
MaxSeqLen == 2
\* the seeds a generator is constructed with: 0..MaxSeed, or none
MaxSeed == 2
\* the calls issued to a seeded generator
MaxCalls == 2
\* the number of states of the model of np.random.RandomState
StreamStates == 4

\* ------------------------------------------------------- program constants
HIGHEST_QUAL == 80
MAX_DIST_NUMBER == 1000000
CMB_SYMB == "."
N_SYMB == "N"
PRIMARY_SYMB == {"A", "C", "G", "T"}
ALL_SYMB == PRIMARY_SYMB \cup {CMB_SYMB, N_SYMB}
\* list(PRIMARY_SYMB): the order CPython 2 iterates the set in.  The lists of
\* KO_SUBS_LOOKUP keep that order.
ALL_SUBS == <<"A", "C", "T", "G">>
\* the marker a deletion leaves in the indel map
DEL_MARK == "-"
\* what seq_read[:] = 0 leaves in a one-character string array
FILL == "0"
\* what np.zeros(n, dtype=np.str) holds
EMPTY == ""

\* ------------------------------------------------------------ arithmetic
RECURSIVE Pow(_, _)
Pow(b, e) == IF e <= 0 THEN 1 ELSE b * Pow(b, e - 1)

RECURSIVE Binom(_, _)
Binom(n, k) == IF k < 0 \/ k > n THEN 0
               ELSE IF k = 0 \/ k = n THEN 1
               ELSE Binom(n - 1, k - 1) + Binom(n - 1, k)

Min(a, b) == IF a < b THEN a ELSE b

\* Python's seq[lo:hi] for 0 <= lo and 0 <= hi.
Slice(seq, lo, hi) == SubSeq(seq, lo + 1, Min(hi, Len(seq)))

RECURSIVE Reverse(_)
Reverse(s) == IF s = <<>> THEN <<>> ELSE Reverse(Tail(s)) \o <<Head(s)>>

\* [x] * n
Repeat(x, n) == [p \in 1..n |-> x]

\* ------------------------------------------------------- random stream
\* A probability is a fraction <<a, b>>; a rate of a read of length n is then
\* a fraction over b^n, and Art.UNIFORM() draws a point of [0, 1) on that grid
\* (0.0 included, 1.0 excluded).
UniformDen(prob, n) == Pow(prob[2], n)
UniformDraws(den) == 0..(den - 1)

\* KO_SUBS_LOOKUP[si]: the three primary symbols other than si.
RECURSIVE Without(_, _)
Without(s, x) == IF s = <<>> THEN <<>>
                 ELSE IF Head(s) = x THEN Without(Tail(s), x)
                 ELSE <<Head(s)>> \o Without(Tail(s), x)
KO_SUBS_LOOKUP(si) == Without(ALL_SUBS, si)

\* Art.random_base(excl) given the RANDINT draw r; "KeyError" when excl is no
\* key of KO_SUBS_LOOKUP.
random_base(excl, r) ==
    IF excl = EMPTY THEN ALL_SUBS[r + 1]
    ELSE IF excl \in PRIMARY_SYMB THEN KO_SUBS_LOOKUP(excl)[r + 1]
    ELSE "KeyError"

\* ------------------------------------------------------------- revcomp
Lower == <<"a","c","g","t","u","m","r","w","s","y","k","v","h","d","b","n">>
Upper == <<"A","C","G","T","U","M","R","W","S","Y","K","V","H","D","B","N">>
LowerTo == <<"T","G","C","A","A","n","n","n","n","n","n","n","n","n","n","n">>
UpperTo == <<"T","G","C","A","A","N","N","N","N","N","N","N","N","N","N","N">>
Letters == {Lower[x] : x \in 1..16} \cup {Upper[x] : x \in 1..16}

IndexIn(tab, ch) == CHOOSE x \in 1..Len(tab) : tab[x] = ch

\* string.maketrans(...): a character outside the table is left as it is.
Translate(ch, lowerTo, upperTo) ==
    IF \E x \in 1..16 : Lower[x] = ch THEN lowerTo[IndexIn(Lower, ch)]
    ELSE IF \E x \in 1..16 : Upper[x] = ch THEN upperTo[IndexIn(Upper, ch)]
    ELSE ch

\* a complement table that gives A for G and C for T
COMPLEMENT_TABLE_GA(ch) ==
    Translate(ch, <<"T", "G", "A", "C", "A", "n", "n", "n", "n", "n", "n", "n", "n", "n", "n",
                    "n">>,
              <<"T", "G", "A", "C", "A", "N", "N", "N", "N", "N", "N", "N", "N", "N", "N",
                "N">>)
COMPLEMENT_TABLE(ch) == Translate(ch, LowerTo, UpperTo)

revcomp(seq) == Reverse([p \in 1..Len(seq) |-> COMPLEMENT_TABLE(seq[p])])

\* str.upper() of one character: every lower-case letter has an upper case
LowerCase == <<"a","b","c","d","e","f","g","h","i","j","k","l","m",
               "n","o","p","q","r","s","t","u","v","w","x","y","z">>
UpperCase == <<"A","B","C","D","E","F","G","H","I","J","K","L","M",
               "N","O","P","Q","R","S","T","U","V","W","X","Y","Z">>
ToUpper(ch) == IF \E x \in 1..Len(LowerCase) : LowerCase[x] = ch
               THEN UpperCase[IndexIn(LowerCase, ch)] ELSE ch

make_mutable(input_seq) == [p \in 1..Len(input_seq) |-> ToUpper(input_seq[p])]

\* ------------------------------------------------------------- EmpDist
\* A profile file is a sequence of lines [symb, pos, vals]: tok[0], int(tok[1])
\* and tok[2:].  symb "#" is a comment line, symb "" the blank line that ends
\* the stream.  A positional table (dist) is a sequence of <<threshold, value>>.
NoDist == [s \in ALL_SYMB |-> <<>>]

\* np.ceil(counts * MAX_DIST_NUMBER / counts[-1]).astype(int), counts[-1] > 0
ScaleCount(cc, last) == (cc * MAX_DIST_NUMBER + last - 1) \div last

MakeDist(values, counts) ==
    [k \in 1..Len(counts) |-> <<ScaleCount(counts[k], counts[Len(counts)]), values[k]>>]

\* The loop of read_emp_dist from line idx on (combined-symbol mode), n being
\* the expected position and dists the tables appended so far.
RECURSIVE read_emp_dist_loop(_, _, _, _)
read_emp_dist_loop(lines, idx, n, dists) ==
    IF idx > Len(lines) \/ lines[idx].symb = ""
    THEN [err |-> "", dists |-> dists, n |-> n]
    ELSE IF lines[idx].symb = "#"
    THEN read_emp_dist_loop(lines, idx + 1, n, dists)
    ELSE IF lines[idx].symb # CMB_SYMB
    THEN read_emp_dist_loop(lines, idx + 1, n, dists)
    ELSE IF lines[idx].pos # n /\ lines[idx].pos # 0
    THEN [err |-> "IOError", dists |-> dists, n |-> n]
    ELSE LET n1 == IF lines[idx].pos # n THEN 0 ELSE n
             values == lines[idx].vals
         IN IF idx + 1 > Len(lines) \/ lines[idx + 1].symb \in {"", "#"}
            THEN [err |-> "IndexError", dists |-> dists, n |-> n1]
            ELSE LET symb == lines[idx + 1].symb
                     counts == lines[idx + 1].vals
                 IN IF lines[idx + 1].pos # n1
                    THEN [err |-> "IOError", dists |-> dists, n |-> n1]
                    ELSE IF Len(values) # Len(counts)
                    THEN [err |-> "IOError", dists |-> dists, n |-> n1]
                    ELSE IF Len(counts) = 0
                    THEN [err |-> "IndexError", dists |-> dists, n |-> n1]
                    ELSE IF symb \notin ALL_SYMB
                    THEN [err |-> "IOError", dists |-> dists, n |-> n1]
                    ELSE read_emp_dist_loop(lines, idx + 2, n1 + 1,
                            [dists EXCEPT ![symb] = Append(@, MakeDist(values, counts))])

read_emp_dist(lines) == read_emp_dist_loop(lines, 1, 0, NoDist)

\* EmpDist.__init__ / init_dist: both files are read, then dist_max is the
\* number of combined-symbol tables of each mate.
EmpDistOf(file_first, file_second) ==
    LET f == read_emp_dist(file_first)
        s == read_emp_dist(file_second)
    IN [err |-> IF f.err # "" THEN f.err ELSE s.err,
        qual_dist_first |-> f.dists,
        qual_dist_second |-> s.dists,
        dist_max_first |-> Len(f.dists[CMB_SYMB]),
        dist_max_second |-> Len(s.dists[CMB_SYMB])]

dist_max(ed, is_first) == IF is_first THEN ed.dist_max_first ELSE ed.dist_max_second

\* verify_length: TRUE when the assertion passes.
verify_length(ed, length, is_first) == length <= dist_max(ed, is_first)

\* np.searchsorted(a, v), side 'left', as numpy's binary search runs it;
\* lo and hi are 0-based.
RECURSIVE searchsorted_loop(_, _, _, _)
searchsorted_loop(a, v, lo, hi) ==
    IF lo >= hi THEN lo
    ELSE LET mid == lo + ((hi - lo) \div 2)
         IN IF a[mid + 1] < v THEN searchsorted_loop(a, v, mid + 1, hi)
            ELSE searchsorted_loop(a, v, lo, mid)

searchsorted(a, v) == searchsorted_loop(a, v, 0, Len(a))

Thresholds(qcdf) == [k \in 1..Len(qcdf) |-> qcdf[k][1]]

\* _lookup_qcdf: the index searchsorted gives, and the quality found there.
lookup_index(qcdf, rv) == searchsorted(Thresholds(qcdf), rv)

\* _get_from_dist: imap stops at the shorter of the tables and the draws.
get_from_dist(qual_dist_for_symb, read_len, rv_list) ==
    LET m == Min(Len(qual_dist_for_symb), Len(rv_list))
        idx == [p \in 1..m |-> lookup_index(qual_dist_for_symb[p], rv_list[p])]
    IN IF \E p \in 1..m : idx[p] >= Len(qual_dist_for_symb[p])
       THEN [err |-> "IndexError", quals |-> <<>>]
       ELSE IF m = 0 \/ m # read_len
       THEN [err |-> "AssertionError", quals |-> <<>>]
       ELSE [err |-> "",
             quals |-> [p \in 1..m |-> qual_dist_for_symb[p][idx[p] + 1][2]]]

\* get_read_qual with the draws rv_list = RANDINT(1, MAX_DIST_NUMBER+1, size=read_len)
get_read_qual(ed, read_len, is_first, rv_list) ==
    IF ~verify_length(ed, read_len, is_first)
    THEN [err |-> "LengthError", quals |-> <<>>]
    ELSE IF is_first
    THEN get_from_dist(ed.qual_dist_first[CMB_SYMB], read_len, rv_list)
    ELSE get_from_dist(ed.qual_dist_second[CMB_SYMB], read_len, rv_list)

\* PROB_ERR[q] = 10.0**(-q*0.1) in units of 1/ProbScale, rounded down; the
\* uniform draws of parse_error are points of [0, 1) in the same units.
\* Tenths[k + 1] is 10.0**(-k*0.1) in those units, rounded down.
ProbScale == Pow(10, 9)
Tenths == <<1000000000, 794328234, 630957344, 501187233, 398107170,
            316227766, 251188643, 199526231, 158489319, 125892541>>
PROB_ERR(q) == Tenths[(q % 10) + 1] \div Pow(10, q \div 10)
\* rvals[i] < prob_err[q]: PROB_ERR[q] is a whole number of units only when q
\* is a multiple of 10; otherwise the draw that equals the rounded-down value
\* is still below it.
BelowProbErr(rval, q) == IF q % 10 = 0 THEN rval < PROB_ERR(q) ELSE rval <= PROB_ERR(q)

\* parse_error from position i (0-based) on, with the draws rvals (one
\* uniform per position) and picks (the RANDINT(0, 3) of a substitution).
RECURSIVE parse_error_loop(_, _, _, _, _)
parse_error_loop(i, quals, seq_read, rvals, picks) ==
    IF i >= Len(quals)
    THEN [err |-> "", quals |-> quals, seq_read |-> seq_read]
    ELSE IF i >= Len(seq_read)
    THEN [err |-> "IndexError", quals |-> quals, seq_read |-> seq_read]
    ELSE IF seq_read[i + 1] = N_SYMB
    THEN parse_error_loop(i + 1, [quals EXCEPT ![i + 1] = 1], seq_read, rvals, picks)
    ELSE IF quals[i + 1] >= HIGHEST_QUAL \/ quals[i + 1] < 0 - HIGHEST_QUAL
    THEN [err |-> "IndexError", quals |-> quals, seq_read |-> seq_read]
    ELSE LET q == IF quals[i + 1] < 0 THEN HIGHEST_QUAL + quals[i + 1] ELSE quals[i + 1]
         IN IF BelowProbErr(rvals[i + 1], q)
            THEN IF seq_read[i + 1] \notin PRIMARY_SYMB /\ seq_read[i + 1] # EMPTY
                 THEN [err |-> "KeyError", quals |-> quals, seq_read |-> seq_read]
                 ELSE parse_error_loop(i + 1, quals,
                        [seq_read EXCEPT ![i + 1] = random_base(@, picks[i + 1])],
                        rvals, picks)
            ELSE parse_error_loop(i + 1, quals, seq_read, rvals, picks)

parse_error(quals, seq_read, rvals, picks) == parse_error_loop(0, quals, seq_read, rvals, picks)

\* ------------------------------------------------------------- SeqRead
\* The indel map is a function over the positions 0..read_len-1 of the read;
\* ABSENT marks a position that is no key of the dict.
ABSENT == "none"
NoIndel(read_len) == [k \in 0..(read_len - 1) |-> ABSENT]
Keys(indel) == {k \in DOMAIN indel : indel[k] # ABSENT}
\* pos in self.indel
HasKey(indel, pos) == pos \in DOMAIN indel /\ indel[pos] # ABSENT
\* a position test that never rejects a taken position
NotInIndel_Any(indel, pos) == pos = pos
\* the test of lines 433, 448, 474 and 495: pos not in self.indel
NotInIndel(indel, pos) == ~HasKey(indel, pos)
Deletions(indel) == {k \in Keys(indel) : indel[k] = DEL_MARK}
Insertions(indel) == {k \in Keys(indel) : indel[k] # DEL_MARK}

\* SeqRead.__init__ as _new_read(plus_strand=...) calls it: the buffers have
\* the configured read length.
SeqRead(read_len, plus_strand) ==
    [read_len |-> read_len,
     is_plus_strand |-> plus_strand,
     seq_ref |-> Repeat(EMPTY, read_len),
     seq_read |-> Repeat(EMPTY, read_len),
     quals |-> <<>>,
     bpos |-> 0 - 1,
     indel |-> NoIndel(read_len)]

\* The two loops of ref2read (indel map not empty): n, k, i as in the code.
RECURSIVE ref2read_loop(_, _, _, _, _, _)
ref2read_loop(seq_ref, indel, out, n, k, i) ==
    IF i < Len(seq_ref)
    THEN IF ~HasKey(indel, k)
         THEN IF n >= Len(out) THEN [err |-> "IndexError", seq_read |-> out, n |-> n, k |-> k]
              ELSE ref2read_loop(seq_ref, indel, [out EXCEPT ![n + 1] = seq_ref[i + 1]],
                                 n + 1, k + 1, i + 1)
         ELSE IF indel[k] = DEL_MARK
         THEN ref2read_loop(seq_ref, indel, out, n, k + 1, i + 1)
         ELSE IF n >= Len(out) THEN [err |-> "IndexError", seq_read |-> out, n |-> n, k |-> k]
         ELSE ref2read_loop(seq_ref, indel, [out EXCEPT ![n + 1] = indel[k]], n + 1, k + 1, i)
    ELSE IF HasKey(indel, k)
    THEN IF n >= Len(out) THEN [err |-> "IndexError", seq_read |-> out, n |-> n, k |-> k]
         ELSE ref2read_loop(seq_ref, indel, [out EXCEPT ![n + 1] = indel[k]], n + 1, k + 1, i)
    ELSE [err |-> "", seq_read |-> out, n |-> n, k |-> k]

\* a ref2read whose buffer is as long as the slice, not as read_len
ref2read_Tight(seq_ref, seq_read, indel) ==
    IF Keys(indel) = {}
    THEN [err |-> "", seq_read |-> seq_ref, n |-> Len(seq_ref), k |-> 0]
    ELSE ref2read_loop(seq_ref, indel, Repeat(FILL, Len(seq_ref)), 0, 0, 0)

\* ref2read: with an empty indel map seq_read becomes seq_ref itself,
\* otherwise the buffer is reset and filled by the walk.
ref2read(seq_ref, seq_read, indel) ==
    IF Keys(indel) = {}
    THEN [err |-> "", seq_read |-> seq_ref, n |-> Len(seq_ref), k |-> 0]
    ELSE ref2read_loop(seq_ref, indel, Repeat(FILL, Len(seq_read)), 0, 0, 0)

\* a length that is the read's read_len field, not the shape of its buffer
length_Nominal(read) == read.read_len

\* SeqRead.length()
length(read) == Len(read.seq_read)

\* ----------------------------------------------------------------- Art
\* The numerator, over b^n, of st.binom.cdf(i, n, a/b).
RECURSIVE BinomCdfNum(_, _, _)
BinomCdfNum(i, n, prob) ==
    IF i < 0 THEN 0
    ELSE Binom(n, i) * Pow(prob[1], i) * Pow(prob[2] - prob[1], n - i)
         + BinomCdfNum(i - 1, n, prob)

\* Art._make_rate, max_num already capped to read_len: rates[i-1] is
\* 1 - binom.cdf(i, read_len, prob), as a numerator over b^read_len.
make_rate(read_len, max_num, prob) ==
    [x \in 1..max_num |-> UniformDen(prob, read_len) - BinomCdfNum(x, read_len, prob)]

\* rate >= Art.UNIFORM()
Accepts(rate, u) == rate >= u

\* the bases the templates and the reference are cut from
BasePattern == <<"A", "C", "N", "G", "T">>
PatternSeq(n) == [p \in 1..n |-> BasePattern[((p - 1) % Len(BasePattern)) + 1]]
\* the insertion and deletion probabilities Art is constructed with
Probs == {<<0, 2>>, <<1, 2>>}

\* a profile file of len positions giving quality 40 at every position
RECURSIVE ConstFile(_)
ConstFile(len) ==
    IF len <= 0 THEN <<>>
    ELSE ConstFile(len - 1) \o <<[symb |-> CMB_SYMB, pos |-> len - 1, vals |-> <<40>>],
                                 [symb |-> CMB_SYMB, pos |-> len - 1, vals |-> <<1>>]>>

\* the draws of RANDINT(1, MAX_DIST_NUMBER+1) the model tries
QualDraws == {1, 25000, 25001, MAX_DIST_NUMBER}

\* --------------------------------------------------------------- state
VARIABLES
    cfg,        \* the arguments Art is constructed with
    prof,       \* the two profile files emp_dist was loaded from
    emp_dist,   \* the EmpDist instance
    art,        \* the fields of the Art instance
    pc,         \* where the running call stands
    err,        \* the exception that ended the last call, "" when none
    call,       \* the running call: entry point and arguments
    read,       \* the SeqRead the call works on
    loc,        \* the locals i, j, ins_len, del_len of get_indel / get_indel_2
    slen,       \* the net length change the call holds
    plan,       \* "A" while get_indel's result stands, "B" once get_indel_2 ran
    ret,        \* the reads the last call returned
    qres,       \* the last result of a direct get_read_qual call
    rc_in,      \* the argument of revcomp
    rc_out,     \* revcomp(rc_in) and revcomp(revcomp(rc_in)), once computed
    drawn       \* the draws the running call took from the shared stream, by step

vars == <<cfg, prof, emp_dist, art, pc, err, call, read, loc, slen, plan, ret,
          qres, rc_in, rc_out, drawn>>

NoArt == [read_len |-> 0, max_num |-> 0, ins_rate |-> <<>>, del_rate |-> <<>>,
          ins_den |-> 1, del_den |-> 1,
          ref_seq |-> <<>>, ref_seq_cmp |-> <<>>, valid_region |-> 0]
NoCall == [entry |-> "", template |-> <<>>, pos |-> 0, plus_strand |-> TRUE]
NoLoc == [i |-> 0, j |-> 0, ins_len |-> 0, del_len |-> 0]
NoQres == [read_len |-> 0, is_first |-> TRUE, rv_list |-> <<>>, err |-> "", quals |-> <<>>]
NoRead == SeqRead(0, TRUE)

\* the templates a call is given: shorter than, as long as and longer than
\* the configured read length
Templates == {PatternSeq(n) : n \in 1..(art.read_len + 1)}
Idle == pc = "ready"
Positional == call.entry = "next_read_indel_at"

Init ==
    /\ cfg \in [read_len : 1..MaxReadLen, max_num : 1..MaxNum,
                ins_prob : Probs, del_prob : Probs,
                ref_seq : {PatternSeq(n) : n \in 1..(MaxReadLen + 1)},
                len1 : 0..MaxReadLen, len2 : 0..MaxReadLen]
    /\ cfg.ins_prob = cfg.del_prob
    /\ Len(cfg.ref_seq) \in {cfg.read_len, cfg.read_len + 1}
    /\ cfg.len1 \in {cfg.read_len - 1, cfg.read_len}
    /\ cfg.len2 \in {cfg.read_len - 1, cfg.read_len}
    /\ prof = <<ConstFile(cfg.len1), ConstFile(cfg.len2)>>
    /\ emp_dist = EmpDistOf(prof[1], prof[2])
    /\ art = NoArt
    /\ pc = "new"
    /\ err = ""
    /\ call = NoCall
    /\ read = NoRead
    /\ loc = NoLoc
    /\ slen = 0
    /\ plan = ""
    /\ ret = <<>>
    /\ qres = NoQres
    /\ rc_in = <<>>
    /\ rc_out = <<>>
    /\ drawn = <<>>

\* a constructor that verifies the first mate's length only
CtorLengthsOk_FirstOnly == verify_length(emp_dist, cfg.read_len, TRUE)

\* ----------------------------------------------------------- Art.__init__
\* The lengths are verified for both mates before anything else is set.
CtorLengthsOk == verify_length(emp_dist, cfg.read_len, TRUE)
                 /\ verify_length(emp_dist, cfg.read_len, FALSE)

Art__init__ ==
    /\ pc = "new"
    /\ IF ~CtorLengthsOk
       THEN /\ pc' = "ctor_failed"
            /\ err' = "LengthError"
            /\ art' = art
       ELSE LET mn == Min(cfg.max_num, cfg.read_len)
            IN /\ art' = [read_len |-> cfg.read_len,
                          max_num |-> mn,
                          ins_rate |-> make_rate(cfg.read_len, mn, cfg.ins_prob),
                          del_rate |-> make_rate(cfg.read_len, mn, cfg.del_prob),
                          ins_den |-> UniformDen(cfg.ins_prob, cfg.read_len),
                          del_den |-> UniformDen(cfg.del_prob, cfg.read_len),
                          ref_seq |-> make_mutable(cfg.ref_seq),
                          ref_seq_cmp |-> revcomp(cfg.ref_seq),
                          valid_region |-> Len(cfg.ref_seq) - cfg.read_len]
               /\ pc' = "ready"
               /\ err' = ""
    /\ UNCHANGED <<cfg, prof, emp_dist, call, read, loc, slen, plan, ret, qres, rc_in, rc_out,
                   drawn>>

\* ------------------------------------------------------ the error-free path
\* an error-free read that is cut from the template whatever the strand
simple_read_Plus(template, plus_strand, qual_val) ==
    LET r0 == SeqRead(art.read_len, plus_strand)
        rl == Min(Len(template), r0.read_len)
        ref == Slice(template, 0, art.read_len)
    IN [r0 EXCEPT !.read_len = rl, !.seq_ref = ref, !.bpos = 0,
                  !.seq_read = ref, !.quals = Repeat(qual_val, rl)]

\* next_read_simple_seq as a function of its arguments.
simple_read(template, plus_strand, qual_val) ==
    LET r0 == SeqRead(art.read_len, plus_strand)
        rl == IF Len(template) < r0.read_len THEN Len(template) ELSE r0.read_len
        ref == IF plus_strand THEN Slice(template, 0, art.read_len)
               ELSE Slice(revcomp(template), 0, art.read_len)
        rr == ref2read(ref, r0.seq_read, r0.indel)
    IN [r0 EXCEPT !.read_len = rl, !.seq_ref = ref, !.bpos = 0,
                  !.seq_read = rr.seq_read, !.quals = Repeat(qual_val, rl)]

next_read_simple_seq ==
    /\ Idle
    /\ \E template \in Templates, plus_strand \in BOOLEAN :
         /\ call' = [entry |-> "next_read_simple_seq", template |-> template,
                     pos |-> 0, plus_strand |-> plus_strand]
         /\ read' = simple_read(template, plus_strand, 40)
         /\ ret' = <<read'>>
    /\ pc' = "done"
    /\ err' = ""
    /\ loc' = NoLoc /\ slen' = 0 /\ plan' = ""
    /\ UNCHANGED <<cfg, prof, emp_dist, art, qres, rc_in, rc_out, drawn>>

next_pair_simple_seq ==
    /\ Idle
    /\ \E template \in Templates :
         /\ call' = [entry |-> "next_pair_simple_seq", template |-> template,
                     pos |-> 0, plus_strand |-> FALSE]
         /\ read' = simple_read(template, FALSE, 40)
         /\ ret' = <<simple_read(template, TRUE, 40), read'>>
    /\ pc' = "done"
    /\ err' = ""
    /\ loc' = NoLoc /\ slen' = 0 /\ plan' = ""
    /\ UNCHANGED <<cfg, prof, emp_dist, art, qres, rc_in, rc_out, drawn>>

\* ------------------------------------------------------- the indel paths
\* The log of the shared stream: one entry per step that drew, naming the
\* step, the read of the call (1, or 2 for the reverse read of a pair) and,
\* where the step draws a whole vector, its size; a step that draws again
\* adds nothing new.
Draw(kind, n) == [kind |-> kind, read |-> Len(ret) + 1, n |-> n]
Log(d, e) == IF Len(d) > 0 /\ d[Len(d)] = e THEN d ELSE Append(d, e)

Frame == UNCHANGED <<cfg, prof, emp_dist, art, qres, rc_in, rc_out>>

\* the source a read is cut from, and what is available of it
mut_temp == make_mutable(call.template)
SourceLen == IF Positional THEN Len(art.ref_seq) ELSE Len(mut_temp)

\* read = self._new_read(...), the template shortening, then get_indel() begins:
\* the map is cleared and the deletion loop starts at i = len(del_rate) - 1.
BeginIndel(c, rl, rt, dr) ==
    /\ call' = c
    /\ read' = [SeqRead(art.read_len, c.plus_strand) EXCEPT
                   !.read_len = rl, !.indel = NoIndel(rl)]
    /\ loc' = [i |-> Len(art.del_rate) - 1, j |-> 0, ins_len |-> 0, del_len |-> 0]
    /\ slen' = 0
    /\ plan' = "A"
    /\ ret' = rt
    /\ drawn' = dr
    /\ err' = ""
    /\ pc' = "get_indel_del"
    /\ Frame

next_read_indel_seq ==
    /\ Idle
    /\ \E template \in Templates, plus_strand \in BOOLEAN :
         BeginIndel([entry |-> "next_read_indel_seq", template |-> template,
                     pos |-> 0, plus_strand |-> plus_strand],
                    Min(Len(make_mutable(template)), art.read_len), <<>>, <<>>)

\* the templates a pair call is given
PairTemplates == {PatternSeq(1)}

\* next_pair_indel_seq: the forward read is generated first
next_pair_indel_seq ==
    /\ Idle
    /\ \E template \in PairTemplates :
         BeginIndel([entry |-> "next_pair_indel_seq", template |-> template,
                     pos |-> 0, plus_strand |-> TRUE],
                    Min(Len(make_mutable(template)), art.read_len), <<>>, <<>>)

\* next_pair_indel_seq, the reverse read, once the forward read is returned
next_pair_indel_seq_rev ==
    /\ pc = "pair_rev"
    /\ BeginIndel([call EXCEPT !.plus_strand = FALSE],
                  Min(Len(make_mutable(call.template)), art.read_len), ret, drawn)

\* the positions next_read_indel_at is called with: every position of the
\* reference, the valid region and the positions past it
PosArgs == 0..(Len(art.ref_seq) - 1)

next_read_indel_at ==
    /\ Idle
    /\ \E pos \in PosArgs, plus_strand \in BOOLEAN :
         BeginIndel([entry |-> "next_read_indel_at", template |-> <<>>,
                     pos |-> pos, plus_strand |-> plus_strand], art.read_len, <<>>, <<>>)

\* pos = RANDINT(0, valid_region); plus_strand = UNIFORM() < 0.5; the call
\* then is next_read_indel_at(pos, plus_strand)
\* RANDINT(0, 0) raises ValueError (low >= high) when the reference is as
\* long as the read.
next_read_indel ==
    /\ Idle
    /\ IF art.valid_region <= 0
       THEN /\ call' = [entry |-> "next_read_indel", template |-> <<>>,
                        pos |-> 0, plus_strand |-> TRUE]
            /\ pc' = "error"
            /\ err' = "ValueError"
            /\ UNCHANGED <<read, loc, slen, plan, ret, drawn>>
            /\ Frame
       ELSE \E pos \in 0..(art.valid_region - 1), plus_strand \in BOOLEAN :
               BeginIndel([entry |-> "next_read_indel_at", template |-> <<>>,
                           pos |-> pos, plus_strand |-> plus_strand], art.read_len, <<>>,
                          <<Draw("pos", 0)>>)

\* the draws of RANDINT(0, 4) in random_base() the model tries: the first
\* and the last symbol of ALL_SUBS
BaseDraws == {0, Len(ALL_SUBS) - 1}
\* the positions RANDINT(0, self.read_len) draws
PosDraws == 0..(read.read_len - 1)
\* a deletion search that takes position 0 as well
DelAdmissible_Any(pos) == pos = pos

\* a deletion may not sit at position 0
DelAdmissible(pos) == pos # 0
PutIndel(pos, v) == read' = [read EXCEPT !.indel[pos] = v]

\* get_indel returns ins_len - del_len; the caller then validates the fit.
ReturnA(l) ==
    /\ slen' = l.ins_len - l.del_len
    /\ loc' = [l EXCEPT !.i = 0, !.j = 0]
    /\ pc' = "validate_fit"

\* get_indel, deletion loop, one iteration (lines 424-427)
get_indel_del ==
    /\ pc = "get_indel_del"
    /\ \E u \in UniformDraws(art.del_den) :
         IF Accepts(art.del_rate[loc.i + 1], u)
         THEN /\ loc' = [loc EXCEPT !.del_len = loc.i + 1, !.j = loc.i]
              /\ pc' = "get_indel_del_pos"
         ELSE IF loc.i = 0
         THEN /\ loc' = [loc EXCEPT !.i = Len(art.ins_rate) - 1]
              /\ pc' = "get_indel_ins"
         ELSE /\ loc' = [loc EXCEPT !.i = loc.i - 1]
              /\ pc' = pc
    /\ UNCHANGED <<call, read, slen, plan, ret, err>>
    /\ drawn' = Log(drawn, Draw("indel", 0))
    /\ Frame

\* get_indel, one turn of the deletion position search (lines 428-436)
get_indel_del_pos ==
    /\ pc = "get_indel_del_pos"
    /\ \E pos \in PosDraws :
         IF DelAdmissible(pos) /\ NotInIndel(read.indel, pos)
         THEN /\ PutIndel(pos, DEL_MARK)
              /\ IF loc.j = 0
                 THEN /\ loc' = [loc EXCEPT !.i = Len(art.ins_rate) - 1]
                      /\ pc' = "get_indel_ins"
                 ELSE /\ loc' = [loc EXCEPT !.j = loc.j - 1]
                      /\ pc' = pc
         ELSE UNCHANGED <<read, loc, pc>>
    /\ UNCHANGED <<call, slen, plan, ret, err>>
    /\ drawn' = Log(drawn, Draw("indel", 0))
    /\ Frame

\* get_indel, insertion loop, one iteration (lines 439-445)
get_indel_ins ==
    /\ pc = "get_indel_ins"
    /\ IF read.read_len - loc.del_len - loc.ins_len < loc.i + 1
       THEN IF loc.i = 0 THEN ReturnA(loc)
            ELSE /\ loc' = [loc EXCEPT !.i = loc.i - 1]
                 /\ UNCHANGED <<slen, pc>>
       ELSE \E u \in UniformDraws(art.ins_den) :
              IF Accepts(art.ins_rate[loc.i + 1], u)
              THEN /\ loc' = [loc EXCEPT !.ins_len = loc.i + 1, !.j = loc.i]
                   /\ pc' = "get_indel_ins_pos"
                   /\ slen' = slen
              ELSE IF loc.i = 0 THEN ReturnA(loc)
              ELSE /\ loc' = [loc EXCEPT !.i = loc.i - 1]
                   /\ UNCHANGED <<slen, pc>>
    /\ UNCHANGED <<call, read, plan, ret, err>>
    /\ drawn' = IF read.read_len - loc.del_len - loc.ins_len < loc.i + 1 THEN drawn
                ELSE Log(drawn, Draw("indel", 0))
    /\ Frame

\* get_indel, one turn of the insertion position search (lines 446-451)
get_indel_ins_pos ==
    /\ pc = "get_indel_ins_pos"
    /\ \E pos \in PosDraws :
         IF NotInIndel(read.indel, pos)
         THEN \E r \in BaseDraws :
                /\ PutIndel(pos, random_base(EMPTY, r))
                /\ IF loc.j = 0 THEN ReturnA(loc)
                   ELSE /\ loc' = [loc EXCEPT !.j = loc.j - 1]
                        /\ UNCHANGED <<slen, pc>>
         ELSE UNCHANGED <<read, loc, slen, pc>>
    /\ UNCHANGED <<call, plan, ret, err>>
    /\ drawn' = Log(drawn, Draw("indel", 0))
    /\ Frame

\* a fit test that also turns down a read that fits exactly
Fits_Strict(l) == call.pos + art.read_len - l < SourceLen

\* the fit test of lines 694 and 728, with self.read_len the configured length
Fits(l) == call.pos + art.read_len - l <= SourceLen

\* lines 694-695 / 728-729: get_indel_2() begins when the read does not fit;
\* it clears the map and starts its insertion loop.
validate_fit ==
    /\ pc = "validate_fit"
    /\ IF ~Fits(slen)
       THEN /\ read' = [read EXCEPT !.indel = NoIndel(read.read_len)]
            /\ loc' = [i |-> Len(art.ins_rate) - 1, j |-> 0, ins_len |-> 0, del_len |-> 0]
            /\ plan' = "B"
            /\ pc' = "get_indel_2_ins"
       ELSE /\ pc' = "ref2read"
            /\ UNCHANGED <<read, loc, plan>>
    /\ UNCHANGED <<call, slen, ret, err>>
    /\ drawn' = drawn
    /\ Frame

\* get_indel_2 returns ins_len - del_len, which the caller takes as it is.
ReturnB(l) ==
    /\ slen' = l.ins_len - l.del_len
    /\ loc' = [l EXCEPT !.i = 0, !.j = 0]
    /\ pc' = "ref2read"

\* the test that ends the deletion loop of get_indel_2 (line 481)
DelLoopEnds(l) == l.del_len = l.ins_len

\* the deletion loop of get_indel_2 starts, or ends at once (line 481)
StartDel2(l) ==
    IF DelLoopEnds(l) THEN ReturnB(l)
    ELSE /\ loc' = [l EXCEPT !.i = Len(art.del_rate) - 1, !.j = 0]
         /\ pc' = "get_indel_2_del"
         /\ slen' = slen

\* get_indel_2, insertion loop, one iteration (lines 468-471)
get_indel_2_ins ==
    /\ pc = "get_indel_2_ins"
    /\ \E u \in UniformDraws(art.ins_den) :
         IF Accepts(art.ins_rate[loc.i + 1], u)
         THEN /\ loc' = [loc EXCEPT !.ins_len = loc.i + 1, !.j = loc.i]
              /\ pc' = "get_indel_2_ins_pos"
              /\ slen' = slen
         ELSE IF loc.i = 0 THEN StartDel2(loc)
         ELSE /\ loc' = [loc EXCEPT !.i = loc.i - 1]
              /\ UNCHANGED <<slen, pc>>
    /\ UNCHANGED <<call, read, plan, ret, err>>
    /\ drawn' = Log(drawn, Draw("indel", 0))
    /\ Frame

\* get_indel_2, one turn of the insertion position search (lines 472-477)
get_indel_2_ins_pos ==
    /\ pc = "get_indel_2_ins_pos"
    /\ \E pos \in PosDraws :
         IF NotInIndel(read.indel, pos)
         THEN \E r \in BaseDraws :
                /\ PutIndel(pos, random_base(EMPTY, r))
                /\ IF loc.j = 0 THEN StartDel2(loc)
                   ELSE /\ loc' = [loc EXCEPT !.j = loc.j - 1]
                        /\ UNCHANGED <<slen, pc>>
         ELSE UNCHANGED <<read, loc, slen, pc>>
    /\ UNCHANGED <<call, plan, ret, err>>
    /\ drawn' = Log(drawn, Draw("indel", 0))
    /\ Frame

\* get_indel_2, deletion loop, one iteration (lines 480-490)
get_indel_2_del ==
    /\ pc = "get_indel_2_del"
    /\ IF DelLoopEnds(loc) THEN ReturnB(loc)
       ELSE IF read.read_len - loc.del_len - loc.ins_len < loc.i + 1
       THEN IF loc.i = 0 THEN ReturnB(loc)
            ELSE /\ loc' = [loc EXCEPT !.i = loc.i - 1]
                 /\ UNCHANGED <<slen, pc>>
       ELSE \E u \in UniformDraws(art.del_den) :
              IF Accepts(art.del_rate[loc.i + 1], u)
              THEN /\ loc' = [loc EXCEPT !.del_len = loc.i + 1, !.j = loc.i]
                   /\ pc' = "get_indel_2_del_pos"
                   /\ slen' = slen
              ELSE IF loc.i = 0 THEN ReturnB(loc)
              ELSE /\ loc' = [loc EXCEPT !.i = loc.i - 1]
                   /\ UNCHANGED <<slen, pc>>
    /\ UNCHANGED <<call, read, plan, ret, err>>
    /\ drawn' = IF DelLoopEnds(loc) \/ read.read_len - loc.del_len - loc.ins_len < loc.i + 1
                THEN drawn
                ELSE Log(drawn, Draw("indel", 0))
    /\ Frame

\* get_indel_2, one turn of the deletion position search (lines 491-498)
get_indel_2_del_pos ==
    /\ pc = "get_indel_2_del_pos"
    /\ \E pos \in PosDraws :
         IF DelAdmissible(pos) /\ NotInIndel(read.indel, pos)
         THEN /\ PutIndel(pos, DEL_MARK)
              /\ IF loc.j = 0 THEN ReturnB(loc)
                 ELSE /\ loc' = [loc EXCEPT !.j = loc.j - 1]
                      /\ UNCHANGED <<slen, pc>>
         ELSE UNCHANGED <<read, loc, slen, pc>>
    /\ UNCHANGED <<call, plan, ret, err>>
    /\ drawn' = Log(drawn, Draw("indel", 0))
    /\ Frame

\* a slice of read_len bases whatever the net delta
SourceSlice_ReadLen ==
    IF Positional
    THEN [err |-> "TypeError", seq |-> <<>>]
    ELSE [err |-> "",
          seq |-> IF read.is_plus_strand
                  THEN Slice(mut_temp, 0, art.read_len)
                  ELSE Slice(revcomp(call.template), 0, art.read_len)]

\* a slice that stops after the first base of the source
SourceSlice_OneBase ==
    IF Positional
    THEN [err |-> "TypeError", seq |-> <<>>]
    ELSE [err |-> "",
          seq |-> IF read.is_plus_strand
                  THEN Slice(mut_temp, 0, 1)
                  ELSE Slice(revcomp(call.template), 0, 1)]

\* lines 697-701 / 731-734: the array made of the reference slice.  A
\* fragment call gives np.fromiter a slice of the list mut_temp, or
\* np.fromstring a slice of the string revcomp(template).  A positional call
\* gives np.fromstring a slice of self.ref_seq or self.ref_seq_cmp, which
\* Art.__init__ made lists: np.fromstring takes a string or a buffer and
\* raises TypeError.
SourceSlice ==
    IF Positional
    THEN [err |-> "TypeError", seq |-> <<>>]
    ELSE [err |-> "",
          seq |-> IF read.is_plus_strand
                  THEN Slice(mut_temp, 0, art.read_len - slen)
                  ELSE Slice(revcomp(call.template), 0, art.read_len - slen)]

\* lines 697-704 / 731-737: the reference slice is taken and ref2read runs;
\* the TypeError of a positional call leaves the read as get_indel left it
slice_reference ==
    /\ pc = "ref2read"
    /\ LET src == SourceSlice
           rr == ref2read(src.seq, read.seq_read, read.indel)
       IN IF src.err # ""
          THEN read' = read /\ pc' = "error" /\ err' = src.err
          ELSE /\ read' = [read EXCEPT !.seq_ref = src.seq, !.bpos = call.pos,
                                       !.seq_read = rr.seq_read]
               /\ IF rr.err # ""
                  THEN pc' = "error" /\ err' = rr.err
                  ELSE pc' = "get_read_qual" /\ err' = err
    /\ UNCHANGED <<call, loc, slen, plan, ret>>
    /\ drawn' = drawn
    /\ Frame

\* the mate whose tables a read is sampled from (lines 707 and 740)
MateIsFirst == IF Positional THEN TRUE ELSE read.is_plus_strand

\* the draw of get_read_qual(read_len, is_first): RANDINT(size=read_len),
\* looked up in the tables of the mate is_first names
QualDraw(n, is_first) == [kind |-> "qual", read |-> Len(ret) + 1, n |-> n,
                          is_first |-> is_first]

\* lines 707 / 740: read.quals = self.emp_dist.get_read_qual(read.length(), ...)
sample_quality ==
    /\ pc = "get_read_qual"
    /\ \E rv_list \in [1..length(read) -> {1, MAX_DIST_NUMBER}] :
         LET q == get_read_qual(emp_dist, length(read), MateIsFirst, rv_list)
         IN IF q.err # ""
            THEN pc' = "error" /\ err' = q.err /\ read' = read
            ELSE pc' = "parse_error" /\ err' = err
                 /\ read' = [read EXCEPT !.quals = q.quals]
    /\ UNCHANGED <<call, loc, slen, plan, ret>>
    /\ drawn' = Log(drawn, QualDraw(length(read), MateIsFirst))
    /\ Frame

\* the draws of one parse_error call: the positions of S draw 0.0, the
\* others the largest point below 1.0; pk gives the RANDINT(0, 3) of S.
\* The calls tried draw 0.0 at no position or at one.
SubSets(n) == {{}} \cup {{p} : p \in 1..n}
Rvals(n, S) == [p \in 1..n |-> IF p \in S THEN 0 ELSE ProbScale - 1]
Picks(n, S, pk) == [p \in 1..n |-> IF p \in S THEN pk[p] ELSE 0]

\* seq_read is seq_ref itself when ref2read found the indel map empty
Aliased(r) == Keys(r.indel) = {}

\* a slice that is the caller's template itself: what is written to it is
\* written to the template
TemplateAfter_Shared(template, r) ==
    [p \in 1..Len(template) |-> IF p <= Len(r.seq_ref) THEN r.seq_ref[p] ELSE template[p]]

\* the caller's template once the read is returned: seq_ref is a new array
\* (np.fromiter, np.fromstring) of a new list (make_mutable, revcomp), so
\* the writes of parse_error stay in the read
TemplateAfter(template, r) == template

\* a pair call goes on to its reverse read after the forward one
PairGoesOn == call.entry = "next_pair_indel_seq" /\ ret = <<>>

\* lines 710 / 743: parse_error(read.quals, read.seq_read), then the read is returned
inject_errors ==
    /\ pc = "parse_error"
    /\ \E S \in SubSets(Len(read.quals)) : \E pk \in [S -> 0..2] :
         LET n == Len(read.quals)
             e == parse_error(read.quals, read.seq_read, Rvals(n, S), Picks(n, S, pk))
             r == [read EXCEPT !.quals = e.quals, !.seq_read = e.seq_read,
                               !.seq_ref = IF Aliased(read) THEN e.seq_read ELSE @]
         IN /\ read' = r
            /\ call' = [call EXCEPT !.template = TemplateAfter(@, r)]
            /\ IF e.err # ""
               THEN pc' = "error" /\ err' = e.err /\ ret' = ret
               ELSE /\ pc' = IF PairGoesOn THEN "pair_rev" ELSE "done"
                    /\ err' = err /\ ret' = Append(ret, r)
    /\ drawn' = Log(drawn, Draw("err", Len(read.quals)))
    /\ UNCHANGED <<loc, slen, plan>>
    /\ Frame

\* SeqRead.clear(): the indel map is emptied and both arrays are filled with 0
clear(r) == [r EXCEPT !.indel = [k \in DOMAIN r.indel |-> ABSENT],
                      !.seq_ref = Repeat(FILL, Len(r.seq_ref)),
                      !.seq_read = Repeat(FILL, Len(r.seq_read))]

\* the caller clears a read it was returned
call_clear ==
    /\ pc \in {"done", "cleared"}
    /\ \E x \in 1..Len(ret) :
         /\ ret' = [ret EXCEPT ![x] = clear(@)]
         /\ read' = IF x = Len(ret) THEN clear(read) ELSE read
    /\ pc' = "cleared"
    /\ UNCHANGED <<call, loc, slen, plan, err, drawn>>
    /\ Frame

\* the caller takes the reads (or the exception) and lets the SeqRead go
take_result ==
    /\ pc \in {"done", "cleared", "error"}
    /\ pc' = "ready"
    /\ err' = ""
    /\ call' = NoCall
    /\ read' = NoRead
    /\ loc' = NoLoc
    /\ slen' = 0
    /\ plan' = ""
    /\ ret' = <<>>
    /\ drawn' = <<>>
    /\ Frame

Next ==
    \/ Art__init__
    \/ take_result
    \/ next_read_simple_seq
    \/ next_pair_simple_seq
    \/ next_read_indel_seq
    \/ next_pair_indel_seq
    \/ next_pair_indel_seq_rev
    \/ next_read_indel_at
    \/ next_read_indel
    \/ get_indel_del
    \/ get_indel_del_pos
    \/ get_indel_ins
    \/ get_indel_ins_pos
    \/ validate_fit
    \/ get_indel_2_ins
    \/ get_indel_2_ins_pos
    \/ get_indel_2_del
    \/ get_indel_2_del_pos
    \/ slice_reference
    \/ sample_quality
    \/ inject_errors
    \/ call_clear

Spec == Init /\ [][Next]_vars

\* ------------------------------------------- the quality sampler on its own
\* The lines a profile file is made of, and the files tried: every sequence
\* of at most MaxFileLines lines.  A vals field serves as a values line or as
\* a counts line.
QLines == [symb : {CMB_SYMB, "X"}, pos : 0..1, vals : {<<40>>, <<2, 80>>}]
QFiles == UNION {[1..n -> QLines] : n \in 0..MaxFileLines}
QConst == ConstFile(2)

InitQual ==
    /\ prof \in {<<f, QConst>> : f \in QFiles} \cup {<<QConst, f>> : f \in QFiles}
    /\ emp_dist = EmpDistOf(prof[1], prof[2])
    /\ cfg = [read_len |-> 1, max_num |-> 1, ins_prob |-> <<0, 1>>, del_prob |-> <<0, 1>>,
              ref_seq |-> <<>>, len1 |-> 0, len2 |-> 0]
    /\ art = NoArt
    /\ pc = "emp_dist"
    /\ err = ""
    /\ call = NoCall
    /\ read = NoRead
    /\ loc = NoLoc
    /\ slen = 0
    /\ plan = ""
    /\ ret = <<>>
    /\ qres = NoQres
    /\ rc_in = <<>>
    /\ rc_out = <<>>
    /\ drawn = <<>>

\* a call of get_read_qual(read_len, is_first) on a profile that loaded
call_get_read_qual ==
    /\ pc = "emp_dist"
    /\ emp_dist.err = ""
    /\ \E is_first \in BOOLEAN : \E rl \in 0..(dist_max(emp_dist, is_first) + 1) :
         \E rv_list \in [1..(IF verify_length(emp_dist, rl, is_first) THEN rl ELSE 0)
                          -> QualDraws] :
           LET q == get_read_qual(emp_dist, rl, is_first, rv_list)
           IN qres' = [read_len |-> rl, is_first |-> is_first, rv_list |-> rv_list,
                       err |-> q.err, quals |-> q.quals]
    /\ pc' = "sampled"
    /\ UNCHANGED <<cfg, prof, emp_dist, art, err, call, read, loc, slen, plan, ret,
                   rc_in, rc_out, drawn>>

NextQual == call_get_read_qual

SpecQual == InitQual /\ [][NextQual]_vars

\* ------------------------------------------------------ revcomp on its own
Seqs(alphabet, n) == UNION {[1..m -> alphabet] : m \in 0..n}

InitRev ==
    /\ rc_in \in Seqs(Letters, MaxSeqLen)
    /\ rc_out = <<>>
    /\ prof = <<<<>>, <<>>>>
    /\ emp_dist = EmpDistOf(prof[1], prof[2])
    /\ cfg = [read_len |-> 1, max_num |-> 1, ins_prob |-> <<0, 1>>, del_prob |-> <<0, 1>>,
              ref_seq |-> <<>>, len1 |-> 0, len2 |-> 0]
    /\ art = NoArt
    /\ pc = "revcomp"
    /\ err = ""
    /\ call = NoCall
    /\ read = NoRead
    /\ loc = NoLoc
    /\ slen = 0
    /\ plan = ""
    /\ ret = <<>>
    /\ qres = NoQres
    /\ drawn = <<>>

\* revcomp(rc_in), then revcomp of the result
call_revcomp ==
    /\ pc = "revcomp"
    /\ rc_out' = <<revcomp(rc_in), revcomp(revcomp(rc_in))>>
    /\ pc' = "revcomp_done"
    /\ UNCHANGED <<cfg, prof, emp_dist, art, err, call, read, loc, slen, plan, ret,
                   qres, rc_in, drawn>>

NextRev == call_revcomp

SpecRev == InitRev /\ [][NextRev]_vars

\* -------------------------------------------------- parse_error on its own
\* The sequences and quality vectors parse_error is called with: bases, the
\* unknown base and an ambiguity letter, a low and a high quality.
ErrBases == {"A", "T", N_SYMB, "R"}
ErrQuals == {1, 40}
\* the uniform draws tried against PROB_ERR[q]: just below it, at its
\* rounded-down value and above it
ErrDraws(q) == {PROB_ERR(q) - 1, PROB_ERR(q), PROB_ERR(q) + 100000}

InitErr ==
    /\ \E n \in 1..MaxSeqLen : \E sq \in [1..n -> ErrBases] : \E ql \in [1..n -> ErrQuals] :
         read = [SeqRead(n, TRUE) EXCEPT !.seq_ref = sq, !.seq_read = sq, !.quals = ql]
    /\ pc = "parse_error_call"
    /\ prof = <<<<>>, <<>>>>
    /\ emp_dist = EmpDistOf(prof[1], prof[2])
    /\ cfg = [read_len |-> 1, max_num |-> 1, ins_prob |-> <<0, 1>>, del_prob |-> <<0, 1>>,
              ref_seq |-> <<>>, len1 |-> 0, len2 |-> 0]
    /\ art = NoArt
    /\ err = ""
    /\ call = NoCall
    /\ loc = NoLoc
    /\ slen = 0
    /\ plan = ""
    /\ ret = <<>>
    /\ qres = NoQres
    /\ rc_in = <<>>
    /\ rc_out = <<>>
    /\ drawn = <<>>

\* The positions (0-based) parse_error calls random_base at and RANDINT(0, 3)
\* is drawn for, from position i on: the loop of lines 110-119.  A lookup of
\* KO_SUBS_LOOKUP that fails raises before the draw.
RECURSIVE parse_error_subs(_, _, _, _)
parse_error_subs(i, quals, seq_read, rvals) ==
    IF i >= Len(quals) \/ i >= Len(seq_read) THEN <<>>
    ELSE IF seq_read[i + 1] = N_SYMB THEN parse_error_subs(i + 1, quals, seq_read, rvals)
    ELSE IF quals[i + 1] >= HIGHEST_QUAL \/ quals[i + 1] < 0 - HIGHEST_QUAL THEN <<>>
    ELSE LET q == IF quals[i + 1] < 0 THEN HIGHEST_QUAL + quals[i + 1] ELSE quals[i + 1]
         IN IF BelowProbErr(rvals[i + 1], q)
            THEN IF seq_read[i + 1] \notin PRIMARY_SYMB /\ seq_read[i + 1] # EMPTY
                 THEN <<>>
                 ELSE <<i>> \o parse_error_subs(i + 1, quals, seq_read, rvals)
            ELSE parse_error_subs(i + 1, quals, seq_read, rvals)

\* The draws parse_error takes from the stream, in the order it takes them:
\* rvals = Art.UNIFORM(size=num_seq) is one draw of num_seq floats before the
\* loop (entry p of the vector is tested at position p), then one
\* RANDINT(0, 3) for each substitution as the loop comes to it.
parse_error_draws(quals, seq_read, rvals) ==
    LET subs == parse_error_subs(0, quals, seq_read, rvals)
    IN [p \in 1..Len(quals) |-> Draw("uniform", p - 1)]
          \o [x \in 1..Len(subs) |-> Draw("base", subs[x])]

\* parse_error(read.quals, read.seq_read): both buffers are written in place;
\* ret keeps the read as it was, qres the draws.
call_parse_error ==
    /\ pc = "parse_error_call"
    /\ \E rvals \in [1..Len(read.quals) -> UNION {ErrDraws(q) : q \in ErrQuals}] :
       \E picks \in [1..Len(read.quals) -> 0..2] :
         /\ \A p \in 1..Len(read.quals) : rvals[p] \in ErrDraws(read.quals[p])
         /\ LET e == parse_error(read.quals, read.seq_read, rvals, picks)
            IN /\ read' = [read EXCEPT !.quals = e.quals, !.seq_read = e.seq_read]
               /\ err' = e.err
               /\ qres' = [NoQres EXCEPT !.rv_list = rvals, !.quals = picks, !.err = e.err]
               /\ drawn' = parse_error_draws(read.quals, read.seq_read, rvals)
    /\ ret' = <<read>>
    /\ pc' = "parse_error_done"
    /\ UNCHANGED <<cfg, prof, emp_dist, art, call, loc, slen, plan, rc_in, rc_out>>

NextErr == call_parse_error

SpecErr == InitErr /\ [][NextErr]_vars

\* ------------------------------------------- two runs of a seeded generator
\* np.random.RandomState as a generator with StreamStates states: seeding
\* sets the state from the seed, every draw reads the state and moves it on.
\* A uniform draw is a point of (0, 1) in units of 1/ProbScale.
RandomState(seed) == seed % StreamStates
Advance(s, k) == (s + k) % StreamStates
UNIFORM(s) == (2 * s + 1) * (ProbScale \div (2 * StreamStates))
RANDINT(lo, hi, s) == lo + (s * (hi - lo)) \div StreamStates

\* `if seed:` the test of Art.__init__: None and 0 are false
Truthy(seed) == seed.given /\ seed.value # 0

\* a profile of len positions giving quality 2 for the lower half of the
\* draws and 40 for the upper half
RECURSIVE TwoQualFile(_)
TwoQualFile(len) ==
    IF len <= 0 THEN <<>>
    ELSE TwoQualFile(len - 1) \o <<[symb |-> CMB_SYMB, pos |-> len - 1, vals |-> <<2, 40>>],
                                   [symb |-> CMB_SYMB, pos |-> len - 1, vals |-> <<1, 2>>]>>

\* next_read_indel_seq(template, plus_strand) of a generator with insertion
\* and deletion probability 0, from the stream state s on: every rate is 0
\* and no uniform draw of the model is 0, so the 2 * max_num acceptance draws
\* of get_indel all fail; then one RANDINT per position for the qualities,
\* one UNIFORM per position for parse_error and one RANDINT(0, 3) for each
\* substitution, in that order.  The indel map is empty, so seq_read is
\* seq_ref itself.  Gives the read and the state left.
seeded_read(s, template, plus_strand, max_num) ==
    LET src == IF plus_strand THEN make_mutable(template) ELSE revcomp(template)
        n == Len(src)
        k0 == 2 * max_num
        rv_list == [p \in 1..n |->
                      RANDINT(1, MAX_DIST_NUMBER + 1, Advance(s, k0 + p - 1))]
        q == get_read_qual(emp_dist, n, plus_strand, rv_list)
        rvals == [p \in 1..n |-> UNIFORM(Advance(s, k0 + n + p - 1))]
        Subst(p) == src[p] # N_SYMB /\ BelowProbErr(rvals[p], q.quals[p])
        Before(p) == Cardinality({x \in 1..(p - 1) : Subst(x)})
        picks == [p \in 1..n |-> RANDINT(0, 3, Advance(s, k0 + 2 * n + Before(p)))]
        e == parse_error(q.quals, src, rvals, picks)
    IN [read |-> [SeqRead(n, plus_strand) EXCEPT !.seq_ref = e.seq_read,
                     !.seq_read = e.seq_read, !.quals = e.quals, !.bpos = 0],
        state |-> Advance(s, k0 + 2 * n + Before(n + 1))]

Runs == 1..2
SeedTemplates == {<<"A", "C">>, <<"N", "T">>}

\* Two runs of the program: each starts with the stream state the import of
\* the module left (RandomState() seeded from the system), and both are given
\* the same seed argument, profile and configuration.
InitSeed ==
    /\ \E given \in BOOLEAN : \E value \in 0..MaxSeed :
         /\ ~given => value = 0
         /\ cfg = [read_len |-> 2, max_num |-> 1, ins_prob |-> <<0, 2>>,
                   del_prob |-> <<0, 2>>, ref_seq |-> <<>>, len1 |-> 2, len2 |-> 2,
                   seed |-> [given |-> given, value |-> value]]
    /\ art \in [Runs -> [RANDOM_STATE : 0..(StreamStates - 1)]]
    /\ prof = <<TwoQualFile(2), TwoQualFile(2)>>
    /\ emp_dist = EmpDistOf(prof[1], prof[2])
    /\ ret = [r \in Runs |-> <<>>]
    /\ pc = "seed_new"
    /\ err = ""
    /\ call = NoCall
    /\ read = NoRead
    /\ loc = NoLoc
    /\ slen = 0
    /\ plan = ""
    /\ qres = NoQres
    /\ rc_in = <<>>
    /\ rc_out = <<>>
    /\ drawn = <<>>

\* Art.__init__ in both runs: the stream is seeded when `if seed:` holds
seed_construct ==
    /\ pc = "seed_new"
    /\ art' = [r \in Runs |->
                 [RANDOM_STATE |-> IF Truthy(cfg.seed) THEN RandomState(cfg.seed.value)
                                   ELSE art[r].RANDOM_STATE]]
    /\ pc' = "seed_ready"
    /\ UNCHANGED <<cfg, prof, emp_dist, err, call, read, loc, slen, plan, ret, qres,
                   rc_in, rc_out, drawn>>

\* the same read-generation call is issued in both runs
seed_call ==
    /\ pc = "seed_ready"
    /\ Len(ret[1]) < MaxCalls
    /\ \E template \in SeedTemplates, plus_strand \in BOOLEAN :
         LET g == [r \in Runs |->
                     seeded_read(art[r].RANDOM_STATE, template, plus_strand, cfg.max_num)]
         IN /\ ret' = [r \in Runs |-> Append(ret[r], g[r].read)]
            /\ art' = [r \in Runs |-> [RANDOM_STATE |-> g[r].state]]
            /\ call' = [entry |-> "next_read_indel_seq", template |-> template,
                        pos |-> 0, plus_strand |-> plus_strand]
    /\ UNCHANGED <<cfg, prof, emp_dist, pc, err, read, loc, slen, plan, qres,
                   rc_in, rc_out, drawn>>

NextSeed == seed_construct \/ seed_call

SpecSeed == InitSeed /\ [][NextSeed]_vars

\* ============================================================== claims
Returned == pc \in {"validate_fit", "ref2read"}
Sliced == pc \in {"get_read_qual", "parse_error", "done"} /\ call.entry \in
              {"next_read_indel_seq", "next_read_indel_at"}
\* the bases a read really holds: what ref2read wrote, not the fill
Bases(r) == Cardinality({p \in 1..Len(r.seq_read) : r.seq_read[p] \notin {FILL, EMPTY}})
\* the source supplies read_len - slen bases from the start of the slice
SourceLongEnough == SourceLen - call.pos >= art.read_len - slen

\* C1: when get_indel_2 returns, its net delta ins_len - del_len is >= 0
\* (ins_len >= del_len).
C1_PlanBNetDeltaNonNeg ==
    (plan = "B" /\ pc = "ref2read") => (loc.ins_len >= loc.del_len /\ slen >= 0)

\* C2 as stated: with a source long enough, the sequence ref2read produces
\* has length read_len - net_delta.
C2_ReadLenMinusDelta ==
    (Sliced /\ SourceLongEnough) => Len(read.seq_read) = art.read_len - slen

\* C2 as amended: with a source long enough, the reference slice has length
\* read_len - net_delta and the reconstructed sequence holds exactly read_len
\* bases.
C2_SliceLenMinusDelta ==
    (Sliced /\ SourceLongEnough) =>
        /\ Len(read.seq_ref) = art.read_len - slen
        /\ Len(read.seq_read) = art.read_len
        /\ Bases(read) = art.read_len

C2_Witness ==
    /\ pc = "done" /\ call.entry = "next_read_indel_seq" /\ SourceLongEnough
    /\ slen < 0 /\ Insertions(read.indel) # {}

\* C3: a template shorter than read_len gives reads of the template's
\* length with as many qualities, on the error-free and on the indel path.
C3_ShortTemplateLength ==
    (pc = "done" /\ call.entry \in {"next_read_simple_seq", "next_pair_simple_seq",
                                    "next_read_indel_seq"}
     /\ Len(call.template) < art.read_len) =>
        \A x \in 1..Len(ret) : /\ length(ret[x]) = Len(call.template)
                               /\ Len(ret[x].quals) = Len(call.template)

\* C4: the quality vector of a returned read is as long as the number of
\* bases the read holds.
C4_QualsMatchBases ==
    pc = "done" => \A x \in 1..Len(ret) : Len(ret[x].quals) = Bases(ret[x])

\* C5: when get_indel or get_indel_2 has returned, the map holds exactly
\* del_len deletion entries and ins_len insertion entries, each insertion a
\* primary base, and the value returned is insertions minus deletions.
C5_IndelMapCounts ==
    Returned =>
        /\ Cardinality(Deletions(read.indel)) = loc.del_len
        /\ Cardinality(Insertions(read.indel)) = loc.ins_len
        /\ Cardinality(Keys(read.indel)) = loc.ins_len + loc.del_len
        /\ \A k \in Insertions(read.indel) : read.indel[k] \in PRIMARY_SYMB
        /\ slen = Cardinality(Insertions(read.indel)) - Cardinality(Deletions(read.indel))

C5_Witness ==
    /\ pc = "ref2read" /\ plan = "B"
    /\ Cardinality(Insertions(read.indel)) = 2 /\ Cardinality(Deletions(read.indel)) = 1

\* C6 as stated: revcomp(revcomp(s)) is s up to case for every s over
\* A, C, G, T, U, N and the ambiguity letters.
UpperSeq(q) == [p \in 1..Len(q) |-> ToUpper(q[p])]
C6_RevcompTwiceAll ==
    pc = "revcomp_done" => UpperSeq(rc_out[2]) = UpperSeq(rc_in)

\* C6 as amended: revcomp(revcomp(s)) is s up to case for every s over
\* A, C, G, T, N in either case.
Unambiguous == {"A", "C", "G", "T", "N", "a", "c", "g", "t", "n"}
C6_RevcompTwiceACGTN ==
    (pc = "revcomp_done" /\ \A p \in 1..Len(rc_in) : rc_in[p] \in Unambiguous) =>
        UpperSeq(rc_out[2]) = UpperSeq(rc_in)

C6_Witness ==
    pc = "revcomp_done" /\ rc_in = <<"a", "G">> /\ rc_out = <<<<"C", "T">>, <<"A", "G">>>>

\* C7: a get_read_qual call within the profile's length returns read_len
\* scores, each in [0, 79] and each the value at the smallest threshold >= the
\* draw of its position.
SampledTable(p) == IF qres.is_first THEN emp_dist.qual_dist_first[CMB_SYMB][p]
                   ELSE emp_dist.qual_dist_second[CMB_SYMB][p]
AtSmallestThreshold(qcdf, rv, q) ==
    \E k \in 1..Len(qcdf) : /\ qcdf[k][1] >= rv
                            /\ \A m \in 1..(k - 1) : qcdf[m][1] < rv
                            /\ q = qcdf[k][2]
C7_SampleInRange ==
    (pc = "sampled" /\ qres.read_len >= 1
     /\ qres.read_len <= dist_max(emp_dist, qres.is_first)) =>
        /\ qres.err = ""
        /\ Len(qres.quals) = qres.read_len
        /\ \A p \in 1..Len(qres.quals) :
             /\ qres.quals[p] \in 0..(HIGHEST_QUAL - 1)
             /\ AtSmallestThreshold(SampledTable(p), qres.rv_list[p], qres.quals[p])

\* C8: a read_len above either mate's profile length stops the constructor
\* before any read exists, and after a successful construction no call fails
\* the sampler's length precondition: the length sampled is at most read_len.
C8_LengthCheckedOnce ==
    /\ ~CtorLengthsOk => (pc \in {"new", "ctor_failed"} /\ ret = <<>> /\ read = NoRead)
    /\ pc # "ctor_failed" => err # "LengthError"
    /\ pc = "get_read_qual" => length(read) <= art.read_len

C8_Witness ==
    /\ pc = "parse_error" /\ call.entry = "next_read_indel_seq" /\ ~read.is_plus_strand
    /\ Keys(read.indel) # {} /\ Len(read.quals) = art.read_len
    /\ emp_dist.dist_max_second = art.read_len

\* C9: a position search always can end: the positions it still has to find
\* are no more than the free admissible positions.
FreeDel == {p \in PosDraws : DelAdmissible(p) /\ ~HasKey(read.indel, p)}
FreeIns == {p \in PosDraws : ~HasKey(read.indel, p)}
C9_SearchCanEnd ==
    /\ pc \in {"get_indel_del_pos", "get_indel_2_del_pos"} =>
          loc.j + 1 <= Cardinality(FreeDel)
    /\ pc \in {"get_indel_ins_pos", "get_indel_2_ins_pos"} =>
          loc.j + 1 <= Cardinality(FreeIns)

\* C10: after the fit validation the slice lies inside the source, for a
\* position of the valid region and for a template of at least read_len bases.
C10_SliceFits ==
    (pc = "ref2read"
     /\ \/ Positional /\ call.pos < art.valid_region
        \/ ~Positional /\ Len(call.template) >= art.read_len) =>
        call.pos + art.read_len - slen <= SourceLen

\* C11: get_indel_2 starts exactly when the result of get_indel does not fit,
\* (pos +) read_len - slen > source length, and at most once per read; once it
\* has started nothing of get_indel's map is left and the final map and net
\* delta are its own, and when it does not start they stay those of get_indel.
InPlanA == {"get_indel_del", "get_indel_del_pos", "get_indel_ins", "get_indel_ins_pos"}
InPlanB == {"get_indel_2_ins", "get_indel_2_ins_pos", "get_indel_2_del",
            "get_indel_2_del_pos"}
AfterIndel == {"ref2read", "get_read_qual", "parse_error"}
C11_FallbackExactlyWhenNoFit ==
    [][/\ (pc = "validate_fit" /\ pc' # pc) =>
            IF call.pos + art.read_len - slen > SourceLen
            THEN plan' = "B" /\ pc' = "get_indel_2_ins" /\ Keys(read'.indel) = {}
            ELSE /\ plan' = "A" /\ pc' = "ref2read"
                 /\ read'.indel = read.indel /\ slen' = slen
       /\ (pc' \in InPlanB /\ pc \notin InPlanB) => pc = "validate_fit"
       /\ pc \in InPlanB =>
            /\ pc' \in InPlanB \cup {"ref2read"} /\ plan' = "B"
            /\ pc' = "ref2read" =>
                 /\ Cardinality(Insertions(read'.indel)) = loc'.ins_len
                 /\ Cardinality(Deletions(read'.indel)) = loc'.del_len
                 /\ slen' = loc'.ins_len - loc'.del_len
       /\ pc \in AfterIndel =>
            /\ pc' \notin InPlanA \cup InPlanB \cup {"validate_fit"}
            /\ pc' \in AfterIndel => (read'.indel = read.indel /\ slen' = slen
                                      /\ plan' = plan)]_vars

C11_Witness ==
    /\ pc = "parse_error" /\ plan = "B" /\ slen = 1
    /\ Cardinality(Insertions(read.indel)) = 2 /\ Cardinality(Deletions(read.indel)) = 1

\* C13: with insertion and deletion probability 0, the constant quality-40
\* profile and a template of at least read_len bases, the read returned has
\* an empty indel map, the first read_len bases of the template (of its
\* reverse complement on the minus strand) as its sequence, and quality 40 at
\* each of its read_len positions.
ZeroRates == cfg.ins_prob[1] = 0 /\ cfg.del_prob[1] = 0
C13_ZeroRatesExactCopy ==
    (pc = "done" /\ ZeroRates /\ call.entry = "next_read_indel_seq"
     /\ Len(call.template) >= art.read_len) =>
        \A x \in 1..Len(ret) :
           /\ Keys(ret[x].indel) = {}
           /\ ret[x].seq_read =
                 Slice(IF ret[x].is_plus_strand THEN call.template
                       ELSE revcomp(call.template), 0, art.read_len)
           /\ ret[x].quals = Repeat(40, art.read_len)

\* C14: once the generator is constructed no step of any call changes the
\* stored reference, its reverse complement, read_len, max_num, the rate
\* curves or the profile tables, and a call leaves the caller's template as
\* it was given.
Constructed == pc \notin {"new", "ctor_failed"}
C14_CallsLeaveConfigAlone ==
    [][Constructed =>
         /\ art' = art
         /\ emp_dist' = emp_dist
         /\ prof' = prof
         /\ cfg' = cfg
         /\ call.entry # "" /\ call'.entry # "" => call'.template = call.template]_vars

\* a minus-strand read of a template shorter than read_len is returned with a
\* substituted base: its sequence no longer is the slice of the template's
\* reverse complement, the template is as it was given
C14_Witness ==
    /\ pc = "done" /\ call.entry = "next_read_indel_seq"
    /\ Len(call.template) < art.read_len /\ Keys(ret[1].indel) = {}
    /\ ret[1].seq_read # Slice(revcomp(call.template), 0, art.read_len)
    /\ ~ret[1].is_plus_strand
    /\ call.template = PatternSeq(Len(call.template))

\* C15: parse_error on a quality vector and a sequence of equal length ends
\* without an error and leaves both lengths as they were; where the base was N
\* the quality is 1 and the base still N; elsewhere the quality is unchanged
\* and the base is replaced, by a primary base other than itself, exactly
\* when the position's draw is below 10^(-quality/10).
C15_ErrorInjection ==
    pc = "parse_error_done" =>
        LET before == ret[1]
            n == Len(before.quals)
        IN /\ err = ""
           /\ Len(read.quals) = n /\ Len(read.seq_read) = Len(before.seq_read)
           /\ \A p \in 1..n :
                IF before.seq_read[p] = N_SYMB
                THEN read.quals[p] = 1 /\ read.seq_read[p] = N_SYMB
                ELSE /\ read.quals[p] = before.quals[p]
                     /\ IF BelowProbErr(qres.rv_list[p], before.quals[p])
                        THEN read.seq_read[p] \in PRIMARY_SYMB \ {before.seq_read[p]}
                        ELSE read.seq_read[p] = before.seq_read[p]

\* C16: loading fails with the format error for every file in which a
\* position counter is neither the expected one nor 0, or the two lines of a
\* pair disagree on position or on number of entries, or a line carries a
\* symbol outside ALL_SYMB.
\* The format read pair by pair, n being the position expected next.
RECURSIVE BadFormat(_, _, _)
BadFormat(lines, idx, n) ==
    IF idx > Len(lines) THEN FALSE
    ELSE IF lines[idx].symb \notin ALL_SYMB THEN TRUE
    ELSE IF lines[idx].pos \notin {n, 0} THEN TRUE
    ELSE IF idx + 1 > Len(lines) THEN FALSE
    ELSE IF lines[idx + 1].symb \notin ALL_SYMB THEN TRUE
    ELSE IF lines[idx + 1].pos # lines[idx].pos THEN TRUE
    ELSE IF Len(lines[idx + 1].vals) # Len(lines[idx].vals) THEN TRUE
    ELSE BadFormat(lines, idx + 2, lines[idx].pos + 1)
C16_MalformedFileFails ==
    (pc = "emp_dist" /\ (BadFormat(prof[1], 1, 0) \/ BadFormat(prof[2], 1, 0))) =>
        emp_dist.err = "IOError"

\* C17: after a load without error, for each mate dist_max is the number of
\* distinct positions the file's combined-symbol lines cover and the table at
\* index p is a distribution the file gives for position p, also when the
\* position counter restarts at 0.
CmbLines(lines) == {x \in 1..Len(lines) : lines[x].symb = CMB_SYMB}
PositionsCovered(lines) == {lines[x].pos : x \in CmbLines(lines)}
GivenFor(lines, p, table) ==
    \E x \in CmbLines(lines) :
       /\ x + 1 \in CmbLines(lines)
       /\ lines[x].pos = p /\ lines[x + 1].pos = p
       /\ Len(lines[x].vals) = Len(lines[x + 1].vals)
       /\ table = MakeDist(lines[x].vals, lines[x + 1].vals)
LoadedAsGiven(lines, tables, dmax) ==
    /\ dmax = Cardinality(PositionsCovered(lines))
    /\ Len(tables) = dmax
    /\ \A p \in 0..(dmax - 1) : GivenFor(lines, p, tables[p + 1])
C17_DistMaxIsPositions ==
    (pc = "emp_dist" /\ emp_dist.err = "") =>
        /\ LoadedAsGiven(prof[1], emp_dist.qual_dist_first[CMB_SYMB], emp_dist.dist_max_first)
        /\ LoadedAsGiven(prof[2], emp_dist.qual_dist_second[CMB_SYMB],
                         emp_dist.dist_max_second)

\* C18: next_read_simple_seq returns the first min(L, len(t)) bases of t on
\* the plus strand and of revcomp(t) on the minus strand, the constant quality
\* at every position and an empty indel map, and takes no draw from the
\* shared stream.
ErrorFree(r, t) ==
    LET m == Min(art.read_len, Len(t))
        src == IF r.is_plus_strand THEN t ELSE revcomp(t)
    IN /\ r.seq_read = SubSeq(src, 1, m)
       /\ r.quals = [p \in 1..m |-> 40]
       /\ Keys(r.indel) = {}
C18_SimpleReadIsPrefix ==
    /\ (pc = "done" /\ call.entry = "next_read_simple_seq") =>
          /\ Len(ret) = 1 /\ ret[1].is_plus_strand = call.plus_strand
          /\ ErrorFree(ret[1], call.template)
          /\ drawn = <<>>
    /\ (pc = "done" /\ call.entry = "next_pair_simple_seq") =>
          /\ Len(ret) = 2 /\ ret[1].is_plus_strand /\ ~ret[2].is_plus_strand
          /\ ErrorFree(ret[1], call.template) /\ ErrorFree(ret[2], call.template)
          /\ drawn = <<>>

C18_Witness ==
    /\ pc = "done" /\ call.entry = "next_read_simple_seq" /\ ~call.plus_strand
    /\ art.read_len = 3 /\ Len(call.template) = 4
    /\ ret[1].seq_read = <<"C", "N", "G">>

\* C19: when get_indel has returned on a read of length read_len, every
\* deletion key is in 1..read_len-1, every insertion key in 0..read_len-1,
\* del_len and ins_len are at most max_num and ins_len + del_len is at most
\* read_len.
C19_PrimaryWithinRead ==
    pc = "validate_fit" =>
        /\ Deletions(read.indel) \subseteq 1..(read.read_len - 1)
        /\ Insertions(read.indel) \subseteq 0..(read.read_len - 1)
        /\ loc.del_len <= art.max_num /\ loc.ins_len <= art.max_num
        /\ loc.del_len = Cardinality(Deletions(read.indel))
        /\ loc.ins_len = Cardinality(Insertions(read.indel))
        /\ loc.ins_len + loc.del_len <= read.read_len

C19_Witness ==
    /\ pc = "validate_fit" /\ read.read_len = 3
    /\ Cardinality(Deletions(read.indel)) = 2 /\ Cardinality(Insertions(read.indel)) = 1

\* C20: within a call the shared stream is drawn from in the order of the
\* steps: for each read the draws of indel selection, then one quality draw
\* per position of the read returned, then the draws of error injection, none
\* of a later step before one of an earlier step; and in a pair call every
\* draw of the forward read comes before every draw of the reverse read.
Rank(kind) == CASE kind = "pos" -> 0 [] kind = "indel" -> 1 [] kind = "qual" -> 2
                [] kind = "err" -> 3
InOrder(a, b) == \/ a.read < b.read
                 \/ a.read = b.read /\ Rank(a.kind) < Rank(b.kind)
DrawsOf(x, kind) == {a \in 1..Len(drawn) : drawn[a].read = x /\ drawn[a].kind = kind}
IndelEntries == {"next_read_indel_seq", "next_pair_indel_seq", "next_read_indel_at"}
C20_DrawOrder ==
    /\ \A a \in 1..Len(drawn) : \A b \in 1..Len(drawn) :
          a < b => InOrder(drawn[a], drawn[b])
    /\ call.entry \in IndelEntries =>
          \A x \in 1..Len(ret) :
             /\ DrawsOf(x, "indel") # {}
             /\ \E a \in DrawsOf(x, "qual") :
                   /\ DrawsOf(x, "qual") = {a}
                   /\ drawn[a].n = Len(ret[x].seq_read)
             /\ \E a \in DrawsOf(x, "err") :
                   /\ DrawsOf(x, "err") = {a}
                   /\ drawn[a].n = Len(ret[x].quals)
    /\ (pc = "done" /\ call.entry = "next_pair_indel_seq") =>
          Len(ret) = 2 /\ ret[1].is_plus_strand /\ ~ret[2].is_plus_strand

C20_Witness ==
    /\ pc = "done" /\ call.entry = "next_pair_indel_seq" /\ Len(ret) = 2
    /\ Len(drawn) = 6 /\ drawn[3].read = 1 /\ drawn[4].read = 2
    /\ Keys(ret[2].indel) # {}

\* C12: two runs constructed with the same integer seed, profile and
\* configuration and given the same calls return the same reads, call by
\* call; only without a seed may they differ.
C12_SeedDeterminism ==
    (pc = "seed_ready" /\ cfg.seed.given) => ret[1] = ret[2]

\* C21: error injection draws position by position: no uniform float is
\* drawn for a position holding the unknown base, and the substitution draw
\* of position i comes before the uniform float of position i + 1.
UniformAt(p) == {a \in 1..Len(drawn) : drawn[a].kind = "uniform" /\ drawn[a].n = p}
BaseAt(p) == {a \in 1..Len(drawn) : drawn[a].kind = "base" /\ drawn[a].n = p}
C21_ErrorDrawsInterleaved ==
    pc = "parse_error_done" =>
       /\ \A p \in 0..(Len(ret[1].seq_read) - 1) :
             ret[1].seq_read[p + 1] = N_SYMB => UniformAt(p) = {}
       /\ \A p \in 0..(Len(ret[1].seq_read) - 1) :
             \A a \in BaseAt(p) : \A b \in UniformAt(p + 1) : a < b

\* C22: the qualities of a returned read are sampled from the tables of the
\* mate that matches its strand: the first mate for a plus-strand read, the
\* second mate for a minus-strand read, in fragment mode and in positional
\* mode alike.
C22_MateMatchesStrand ==
    /\ pc = "done" =>
          \A x \in 1..Len(ret) : \A a \in DrawsOf(x, "qual") :
             drawn[a].is_first = ret[x].is_plus_strand
    /\ (Positional /\ pc \in {"done", "error"}) =>
          \E a \in DrawsOf(1, "qual") : drawn[a].is_first = read.is_plus_strand

\* C23: the sequence of a read, as ref2read builds it and as it is returned,
\* never holds the deletion marker '-': deletions are consumed inside the
\* main walk and the trailing flush emits insertion bases only.
HasMark(sq) == \E p \in 1..Len(sq) : sq[p] = DEL_MARK
C23_NoDeletionMarkInRead ==
    /\ Sliced => ~HasMark(read.seq_read)
    /\ \A x \in 1..Len(ret) : ~HasMark(ret[x].seq_read)

C23_Witness ==
    /\ pc = "done" /\ call.entry = "next_read_indel_seq"
    /\ Len(call.template) < art.read_len
    /\ Deletions(read.indel) # {} /\ Insertions(read.indel) # {}
    /\ read.seq_read[1] \in PRIMARY_SYMB

\* C24: the reference slice of a returned read is the bases taken from the
\* source (template prefix, reverse-complement prefix or reference window);
\* error injection changes the read sequence and the qualities only, with an
\* empty indel map as with indels.
C24_SeqRefUntouched ==
    (pc = "done" /\ call.entry \in {"next_read_indel_seq", "next_read_indel_at"}) =>
        read.seq_ref = SourceSlice.seq

\* C25: with a non-empty indel map and a source that supplies the full
\* read_len - net_delta bases, ref2read ends without running past the buffer,
\* its write index ends at read_len (read_len - ins_len reference bases and
\* ins_len insertion bases), every key of the map lies behind its map index,
\* and the buffer then holds read_len bases.
WithIndels == Keys(read.indel) # {} /\ SourceLongEnough
C25_WalkFillsBuffer ==
    /\ (pc = "ref2read" /\ WithIndels /\ SourceSlice.err = "") =>
          LET rr == ref2read(SourceSlice.seq, read.seq_read, read.indel)
          IN /\ rr.err = ""
             /\ rr.n = art.read_len
             /\ rr.n <= Len(read.seq_read)
             /\ Len(SourceSlice.seq) - Cardinality(Deletions(read.indel))
                   = art.read_len - Cardinality(Insertions(read.indel))
             /\ \A key \in Keys(read.indel) : key < rr.k
    /\ (pc = "get_read_qual" /\ WithIndels) =>
          /\ Len(read.seq_read) = art.read_len
          /\ Bases(read) = art.read_len
          /\ ~HasMark(read.seq_read)
    /\ (pc = "error" /\ plan # "" /\ WithIndels) => err # "IndexError"

C25_Witness ==
    /\ pc = "get_read_qual" /\ WithIndels
    /\ Insertions(read.indel) # {} /\ Deletions(read.indel) # {}
    /\ (art.read_len - 1) \in Insertions(read.indel)
    /\ read.seq_read[art.read_len] = read.indel[art.read_len - 1]

====
